---- MODULE Spec2Model ----
(***************************************************************************)
(* Credits ledger of the Gemini backend (app/services/credits_service.py). *)
(* One user_credits row (one user id) is modelled; every request handler   *)
(* is a process whose database round trips (query, commit, refresh) are    *)
(* the atomic steps.  The Python code between two round trips runs with    *)
(* the round trip that follows it.  The endpoint handlers of api/endpoints *)
(* are modelled above the ledger: credits under SpecApi, with the local    *)
(* and the UTC date of the server; scan, chat and chat/stream under        *)
(* SpecFlow, with the daily Gemini counter of core/gemini_quota.py.  The   *)
(* counter alone runs under SpecQuota, middleware/rate_limiter.py under    *)
(* SpecRate and the trial service under SpecTrial.                         *)
(***************************************************************************)
EXTENDS Integers, Sequences, FiniteSets, TLC

\* ---------------------------------------------------------------- bounds
MaxCalls == 3
MaxConcCalls == 2
MaxDay == 1
MaxTokens == 3002
MaxRequests == 3
MaxGeminiCalls == 4
MaxTime == 60

\* ------------------------------------------------------ program constants
DAILY_QUOTA_FULL == 30
DAILY_QUOTA_TRIAL == 10
TOKENS_PER_GEM == 1000
SCAN_COST == 5
CHAT_COST == 1
DAILY_LIMIT == 18
RATE_LIMIT_PER_MINUTE == 20

\* quota_reset_date is a nullable column: NoDate stands for NULL / None.
NoDate == -1

\* Two request handlers run at a time.
Procs == {1, 2}

VARIABLES
    store,     \* the user_credits row of the user, or Absent
    today,     \* date.today()
    calls,     \* number of service calls started so far
    pc,        \* pc[p]: the round trip process p performs next
    args,      \* args[p]: the arguments of the call p is in
    loc,       \* loc[p]: the ORM object p's session holds (attributes as loaded)
    res,       \* res[p]: outcome of p's last call
    pre,       \* pre[p]: the row and the date when p's call started (history)
    ledger,    \* history: grants and debits committed on the current row
    tokIn,     \* input of calculate_cost_from_tokens under SpecCost
    costOut,   \* its result
    hist,      \* whether the history of finished calls (pre, args, res.val) is kept
    anon,      \* is_anonymous of the user's token (concurrent handlers)
    tz,        \* sign of the UTC offset of the server's local time zone
    utcToday,  \* datetime.now(timezone.utc).date()
    req,       \* the HTTP request an endpoint handler is serving, and its response
    dailyCalls, \* the counter file of core/gemini_quota.py and the calls made of it
    limiter,   \* RateLimitMiddleware: the clock and the request times it keeps
    trial      \* the trial_devices collection and the calls of trial_service

vars == <<store, today, calls, pc, args, loc, res, pre, ledger, tokIn, costOut, hist, anon, tz,
          utcToday, req, dailyCalls, limiter, trial>>

\* ------------------------------------------------------------ pure helpers
Max(a, b) == IF a >= b THEN a ELSE b

\* A mutation of the ceiling division: floor division.
calculate_cost_from_tokens_floor(total_tokens) ==
    IF total_tokens <= 0 THEN 1
    ELSE Max(1, total_tokens \div TOKENS_PER_GEM)

calculate_cost_from_tokens(total_tokens) ==
    IF total_tokens <= 0 THEN 1
    ELSE Max(1, (total_tokens + TOKENS_PER_GEM - 1) \div TOKENS_PER_GEM)

\* A mutation: the class is ignored.
get_daily_quota_full(is_anonymous) == DAILY_QUOTA_FULL

get_daily_quota(is_anonymous) ==
    IF is_anonymous THEN DAILY_QUOTA_TRIAL ELSE DAILY_QUOTA_FULL

\* A mutation: a row reset today counts as due.
should_reset_quota_le(credits, d) ==
    IF credits.qrd = NoDate THEN TRUE ELSE credits.qrd <= d

\* A mutation: only a row without a date is reset.
should_reset_quota_null(credits, d) == credits.qrd = NoDate

should_reset_quota(credits, d) ==
    IF credits.qrd = NoDate THEN TRUE ELSE credits.qrd < d

\* A mutation: the token count is ignored.
EffectiveCostFixed(cost, tokens) == cost

\* Optional[int] is a sequence: <<>> is None, <<t>> is the value t.
EffectiveCost(cost, tokens) ==
    IF tokens # <<>> /\ tokens[1] > 0
    THEN calculate_cost_from_tokens(tokens[1])
    ELSE cost

\* The row a session sees when the user has none.
Absent == [ex |-> FALSE, credits |-> 0, qrd |-> NoDate]

Row(c, d) == [ex |-> TRUE, credits |-> c, qrd |-> d]

\* SQLAlchemy's flush puts a column in the UPDATE only when the attribute
\* differs from the value the session loaded; another column keeps what the
\* table holds at the commit.
WriteCol(loaded, new, current) == IF new = loaded THEN current ELSE new

Flush(loaded, new, current) ==
    Row(WriteCol(loaded.credits, new.credits, current.credits),
        WriteCol(loaded.qrd, new.qrd, current.qrd))

NoArgs == [op |-> "none", trial |-> FALSE, cost |-> 0, tokens |-> <<>>, amount |-> 0]
\* The outcome of a call: the value returned (0 for None), or the status code
\* of the HTTPException raised; detail holds the numbers its message carries.
NoRes == [status |-> "none", val |-> 0, detail |-> <<>>]
OkRes(v) == [status |-> "ok", val |-> v, detail |-> <<>>]
ErrRes(s) == [status |-> s, val |-> 0, detail |-> <<>>]

\* HTTPException(402, f"Crédits insuffisants. Solde: {solde}, requis: {requis}")
InsufficientCredits(solde, requis) ==
    [status |-> "402", val |-> 0, detail |-> <<solde, requis>>]
NoPre == [row |-> Absent, day |-> 0]

\* History of the commits on the row.  base: the balance the last creation or
\* reset granted; paid: the costs of the consume calls that committed a debit
\* since; clean: that grant was committed while no other call was in flight and
\* neither a bonus nor a change of date followed; debited: a debit was committed
\* on a row already reset today; clobbered: a reset was committed after it.
NoLedger == [base |-> 0, paid |-> 0, clean |-> FALSE, debited |-> FALSE, clobbered |-> FALSE]

Cost(p) == EffectiveCost(args[p].cost, args[p].tokens)

\* A mutation: a balance equal to the cost is refused.
InsufficientLe(balance, cost) == balance <= cost

\* A missing balance check.
InsufficientNever(balance, cost) == FALSE

\* credits.credits < cost
Insufficient(balance, cost) == balance < cost

OthersIdle(p) == \A q \in Procs \ {p} : pc[q] = "idle"
AllIdle == \A q \in Procs : pc[q] = "idle"

\* ----------------------------------------------------------- history updates
Granted(p, q) ==
    [ledger EXCEPT !.base = q, !.paid = 0, !.clean = OthersIdle(p)]

\* A commit that applied a reset (reset) and left the row new.
AfterReset(l, reset, new) ==
    IF reset
    THEN [l EXCEPT !.clobbered = @ \/ (ledger.debited /\ store.ex /\ store.qrd = today
                                           /\ new.credits > store.credits)]
    ELSE l

\* ------------------------------------------------------------------ inputs
Tri(op, t) == [op |-> op, trial |-> t, cost |-> 0, tokens |-> <<>>, amount |-> 0]
Billable(op, t, c, k) == [op |-> op, trial |-> t, cost |-> c, tokens |-> k, amount |-> 0]
Bonus(t, a) == [op |-> "addBonus", trial |-> t, cost |-> 0, tokens |-> <<>>, amount |-> a]

FixedCosts == {SCAN_COST, CHAT_COST}
TokenInputs == {<<>>, <<-5>>, <<0>>, <<2500>>, <<10500>>}
BonusAmounts == {5}
SeqBonusAmounts == {1, 5}

SeqInputs ==
    {Tri(op, t) : op \in {"getOrCreate", "getBalance"}, t \in BOOLEAN}
    \cup {Billable(op, t, c, k) : op \in {"ensureSufficient", "consume"},
                                  t \in BOOLEAN, c \in FixedCosts, k \in TokenInputs}
    \cup {Bonus(t, a) : t \in BOOLEAN, a \in SeqBonusAmounts}

\* The calls of the endpoints for a user whose token says is_anonymous = t:
\* GET /credits, scan and chat (ensure_credits, then consume), POST /credits/add.
ConcInputs(t) ==
    {Tri("getOrCreate", t)}
    \cup {Billable(op, t, c, <<>>) : op \in {"ensureSufficient", "consume"}, c \in FixedCosts}
    \cup {Billable("consume", t, CHAT_COST, <<9500>>)}
    \cup {Bonus(t, a) : a \in BonusAmounts}

\* ------------------------------------------------------------------- state
\* No request is being served and none was answered yet.
\* The dates the model runs through.
Days == 0..MaxDay

\* DATA_FILE absent: _load() returns {}, and data.get(today, 0) is 0 for every date.
NoCounts == [d \in Days |-> 0]

\* No answer of the vision model.
NoAnswer == [json |-> FALSE, medication_name |-> "", confidence |-> "none"]

NoReq ==
    [ep |-> "none", trial |-> FALSE, pc |-> "idle", status |-> "none", event |-> "none",
     credits |-> 0, next |-> NoDate, tokens |-> 0,
     ensured |-> FALSE, inference |-> "none", consumeCalled |-> FALSE, row |-> Absent,
     answer |-> NoAnswer, counts0 |-> NoCounts]

LegacyCredits == {7}

Base ==
    /\ store \in {Absent} \cup {Row(c, NoDate) : c \in LegacyCredits}
    /\ today = 0
    /\ calls = 0
    /\ pc = [p \in Procs |-> "idle"]
    /\ args = [p \in Procs |-> NoArgs]
    /\ loc = [p \in Procs |-> Absent]
    /\ res = [p \in Procs |-> NoRes]
    /\ pre = [p \in Procs |-> NoPre]
    /\ ledger = NoLedger
    /\ tokIn = 0
    /\ costOut = 0
    /\ utcToday = 0
    /\ req = NoReq

\* counts: the JSON object of DATA_FILE, calls per date; readable, writable:
\* whether open() of the file succeeds for reading and for writing.  History:
\* calls, the number of calls of check_and_increment; allowed[d], how many of
\* them returned True on date d; last, what the last one returned.
NoQuota ==
    [counts |-> NoCounts, readable |-> TRUE, writable |-> TRUE,
     calls |-> 0, allowed |-> NoCounts, last |-> "none"]

\* _get_client_id: "user:<id>" or "ip:<host>"
Clients == {"user:u1", "ip:10.0.0.1"}

\* now: time.time(), in seconds; requests: self.requests, the times kept for
\* each client; last: the last request dispatched and its answer.  History:
\* recent[c], the times of the requests of c forwarded less than 60 seconds ago.
NoLimiter ==
    [now |-> 0,
     requests |-> [c \in Clients |-> <<>>],
     recent |-> [c \in Clients |-> <<>>],
     last |-> [client |-> "none", path |-> "none", status |-> "none"]]

\* db: firebase_service.db, a client ("up"), a client whose calls raise
\* ("failing"), or None; docs: the device ids of the documents of the
\* trial_devices collection; last: the last request of /trial and its answer.
\* History: registered, the device ids register_trial_device was called for.
NoTrial ==
    [db |-> "up", docs |-> {}, registered |-> {},
     last |-> [op |-> "none", device |-> "", answer |-> "none"]]

\* Nothing has used the Gemini counter, the rate limiter or the trial service.
Fresh == dailyCalls = NoQuota /\ limiter = NoLimiter /\ trial = NoTrial

\* The ledger reads date.today() only: its specifications run on a server in UTC.
Init == Base /\ Fresh /\ hist = FALSE /\ anon \in BOOLEAN /\ tz = 0

InitSeq == Base /\ Fresh /\ hist = TRUE /\ anon = FALSE /\ tz = 0

\* A request handler enters a service method.
Start(p, a, limit) ==
    /\ pc[p] = "idle"
    /\ \A q \in Procs : q < p => pc[q] # "idle"
    /\ calls < limit
    /\ calls' = calls + 1
    /\ args' = [args EXCEPT ![p] = a]
    /\ pc' = [pc EXCEPT ![p] = "goc_read"]
    /\ res' = [res EXCEPT ![p] = NoRes]
    /\ pre' = [pre EXCEPT ![p] = IF hist THEN [row |-> store, day |-> today] ELSE NoPre]
    /\ UNCHANGED <<store, today, loc, ledger, tokIn, costOut, hist, anon, tz, utcToday, dailyCalls, limiter, trial>>

\* The call of p ends with result r.
Finish(p, r) ==
    /\ pc' = [pc EXCEPT ![p] = "idle"]
    /\ res' = [res EXCEPT ![p] = IF hist THEN r ELSE [r EXCEPT !.val = 0, !.detail = <<>>]]
    /\ args' = [args EXCEPT ![p] = IF hist THEN @ ELSE NoArgs]
    /\ loc' = [loc EXCEPT ![p] = Absent]

\* get_or_create returned the object credits to its caller.
GocReturn(p, credits) ==
    CASE args[p].op \in {"getOrCreate", "getBalance"} -> Finish(p, OkRes(credits.credits))
      [] args[p].op = "ensureSufficient" ->
            IF Insufficient(credits.credits, Cost(p))
            THEN Finish(p, InsufficientCredits(credits.credits, Cost(p)))
            ELSE Finish(p, OkRes(0))
      [] args[p].op = "consume" ->
            /\ pc' = [pc EXCEPT ![p] = "c_read"]
            /\ loc' = [loc EXCEPT ![p] = Absent]
            /\ UNCHANGED <<res, args>>
      [] args[p].op = "addBonus" ->
            /\ pc' = [pc EXCEPT ![p] = "a_read"]
            /\ loc' = [loc EXCEPT ![p] = Absent]
            /\ UNCHANGED <<res, args>>

\* db.query(UserCredits).filter(...).first()
GocRead(p) ==
    /\ pc[p] = "goc_read"
    /\ loc' = [loc EXCEPT ![p] = store]
    /\ pc' = [pc EXCEPT ![p] = "goc_write"]
    /\ UNCHANGED <<store, today, calls, args, res, pre, ledger, tokIn, costOut, hist, anon, tz, utcToday, req, dailyCalls, limiter, trial>>

\* The INSERT of a row whose primary key exists: IntegrityError, not caught.
GocConflict(p) ==
    /\ pc[p] = "goc_write"
    /\ ~loc[p].ex
    /\ store.ex
    /\ Finish(p, ErrRes("500"))
    /\ UNCHANGED <<store, today, calls, pre, ledger, tokIn, costOut, hist, anon, tz, utcToday, req, dailyCalls, limiter, trial>>

\* The branches of get_or_create after the query, up to the commit.
GocWrite(p) ==
    /\ pc[p] = "goc_write"
    /\ LET quota == get_daily_quota(args[p].trial)
           fresh == Row(quota, today)
       IN  IF ~loc[p].ex
           THEN /\ ~store.ex
                /\ store' = fresh
                /\ ledger' = Granted(p, quota)
                /\ pc' = [pc EXCEPT ![p] = "goc_refresh"]
                /\ UNCHANGED <<loc, res, args>>
           ELSE IF should_reset_quota(loc[p], today)
           THEN /\ store' = Flush(loc[p], fresh, store)
                /\ ledger' = AfterReset(Granted(p, quota), TRUE, store')
                /\ pc' = [pc EXCEPT ![p] = "goc_refresh"]
                /\ UNCHANGED <<loc, res, args>>
           ELSE /\ GocReturn(p, loc[p])
                /\ UNCHANGED <<store, ledger>>
    /\ UNCHANGED <<today, calls, pre, tokIn, costOut, hist, anon, tz, utcToday, req, dailyCalls, limiter, trial>>

\* db.refresh(credits); return credits
GocRefresh(p) ==
    /\ pc[p] = "goc_refresh"
    /\ GocReturn(p, store)
    /\ UNCHANGED <<store, today, calls, pre, ledger, tokIn, costOut, hist, anon, tz, utcToday, req, dailyCalls, limiter, trial>>

\* consume: db.query(UserCredits).filter(...).first() in the second session
CRead(p) ==
    /\ pc[p] = "c_read"
    /\ loc' = [loc EXCEPT ![p] = store]
    /\ pc' = [pc EXCEPT ![p] = "c_write"]
    /\ UNCHANGED <<store, today, calls, args, res, pre, ledger, tokIn, costOut, hist, anon, tz, utcToday, req, dailyCalls, limiter, trial>>

\* The history after a debit of cost was committed, leaving the row new.
Debited(l, cost, new) ==
    [l EXCEPT !.paid = @ + cost, !.debited = @ \/ new.qrd = today]

\* A mutation: the pending attributes reach the table although the call failed.
CloseFlushing(table, pending) == pending

\* finally: db.close() with nothing committed: the pending attributes (the
\* reset applied in the session) are dropped and the table keeps its row.
CloseWithoutCommit(table, pending) == table

\* consume from the query to the commit.  The row exists when the query runs
\* (get_or_create returned and no code deletes a row), so the insertion of a
\* missing row is folded into this step.
CWrite(p) ==
    /\ pc[p] = "c_write"
    /\ LET quota == get_daily_quota(args[p].trial)
           loaded == IF loc[p].ex THEN loc[p] ELSE Row(quota, today)
           table == IF loc[p].ex THEN store ELSE Row(quota, today)
           reset == should_reset_quota(loaded, today)
           cur == IF reset THEN Row(quota, today) ELSE loaded
           new == Row(cur.credits - Cost(p), cur.qrd)
       IN  /\ loc[p].ex \/ ~store.ex
           /\ IF Insufficient(cur.credits, Cost(p))
              THEN /\ Finish(p, InsufficientCredits(cur.credits, Cost(p)))
                   /\ store' = CloseWithoutCommit(table, cur)
                   /\ UNCHANGED ledger
              ELSE /\ store' = Flush(loaded, new, table)
                   /\ ledger' = Debited(AfterReset(IF reset THEN Granted(p, quota) ELSE ledger,
                                                    reset, store'),
                                         Cost(p), store')
                   /\ pc' = [pc EXCEPT ![p] = "c_refresh"]
                   /\ UNCHANGED <<loc, res, args>>
    /\ UNCHANGED <<today, calls, pre, tokIn, costOut, hist, anon, tz, utcToday, req, dailyCalls, limiter, trial>>

\* db.refresh(credits); return credits.credits
CRefresh(p) ==
    /\ pc[p] = "c_refresh"
    /\ Finish(p, OkRes(store.credits))
    /\ UNCHANGED <<store, today, calls, pre, ledger, tokIn, costOut, hist, anon, tz, utcToday, req, dailyCalls, limiter, trial>>

\* add_credits: db.query(UserCredits).filter(...).first() in the second session
ARead(p) ==
    /\ pc[p] = "a_read"
    /\ loc' = [loc EXCEPT ![p] = store]
    /\ pc' = [pc EXCEPT ![p] = "a_write"]
    /\ UNCHANGED <<store, today, calls, args, res, pre, ledger, tokIn, costOut, hist, anon, tz, utcToday, req, dailyCalls, limiter, trial>>

\* A mutation: the bonus is never refused.
QuotaExhaustedNever(credits, d) == FALSE

\* credits.credits == 0 and credits.quota_reset_date == date.today()
QuotaExhausted(credits, d) == credits.ex /\ credits.credits = 0 /\ credits.qrd = d

\* A mutation: the amount is not added.
AddAmountNone(balance, amount) == balance

\* credits.credits += amount
AddAmount(balance, amount) == balance + amount

\* add_credits from the query to the commit.
AWrite(p) ==
    /\ pc[p] = "a_write"
    /\ LET quota == get_daily_quota(args[p].trial)
           reset == should_reset_quota(loc[p], today)
           cur == IF reset THEN Row(quota, today) ELSE loc[p]
           new == Row(AddAmount(cur.credits, args[p].amount), cur.qrd)
       IN  IF QuotaExhausted(loc[p], today)
           THEN /\ Finish(p, ErrRes("403"))
                /\ UNCHANGED <<store, ledger>>
           ELSE /\ loc[p].ex \/ ~store.ex
                /\ store' = IF loc[p].ex THEN Flush(loc[p], new, store)
                                         ELSE Row(AddAmount(quota, args[p].amount), today)
                /\ ledger' = [AfterReset(IF reset THEN Granted(p, quota) ELSE ledger,
                                         reset /\ loc[p].ex, store')
                                EXCEPT !.clean = FALSE]
                /\ pc' = [pc EXCEPT ![p] = "a_refresh"]
                /\ UNCHANGED <<loc, res, args>>
    /\ UNCHANGED <<today, calls, pre, tokIn, costOut, hist, anon, tz, utcToday, req, dailyCalls, limiter, trial>>

\* db.refresh(credits); return credits.credits
ARefresh(p) ==
    /\ pc[p] = "a_refresh"
    /\ Finish(p, OkRes(store.credits))
    /\ UNCHANGED <<store, today, calls, pre, ledger, tokIn, costOut, hist, anon, tz, utcToday, req, dailyCalls, limiter, trial>>

\* Local midnight: date.today() moves to the next day.  East of Greenwich it
\* comes before the midnight of UTC, west of it after; on a server in UTC the
\* two dates change together.
Tick ==
    /\ today < MaxDay
    /\ (tz > 0 => today = utcToday) /\ (tz < 0 => today < utcToday)
    /\ today' = today + 1
    /\ utcToday' = IF tz = 0 THEN utcToday + 1 ELSE utcToday
    /\ ledger' = [ledger EXCEPT !.clean = FALSE, !.debited = FALSE]
    /\ UNCHANGED <<store, calls, pc, args, loc, res, pre, tokIn, costOut, hist, anon, tz, req, dailyCalls, limiter, trial>>

\* Midnight UTC on a server whose local time zone is not UTC.
UtcMidnight ==
    /\ tz # 0
    /\ utcToday < MaxDay
    /\ (tz > 0 => utcToday < today) /\ (tz < 0 => utcToday = today)
    /\ utcToday' = utcToday + 1
    /\ UNCHANGED <<store, today, calls, pc, args, loc, res, pre, ledger, tokIn, costOut, hist, anon, tz, req, dailyCalls, limiter, trial>>

\* The anonymous user signs up: the same uid, is_anonymous false from now on.
Register ==
    /\ anon
    /\ anon' = FALSE
    /\ UNCHANGED <<store, today, calls, pc, args, loc, res, pre, ledger, tokIn, costOut, hist, tz, utcToday, req, dailyCalls, limiter, trial>>

\* The round trips of get_or_create, of consume after it, of add_credits after it.
GocStep(p) == GocRead(p) \/ GocWrite(p) \/ GocRefresh(p)
ConsumeStep(p) == CRead(p) \/ CWrite(p) \/ CRefresh(p)
AddStep(p) == ARead(p) \/ AWrite(p) \/ ARefresh(p)

Step(p) == GocStep(p) \/ ConsumeStep(p) \/ AddStep(p)

\* Concurrent request handlers.
Next ==
    \/ Tick
    \/ Register
    \/ \E p \in Procs : \E a \in ConcInputs(anon) : Start(p, a, MaxConcCalls) /\ UNCHANGED req
    \/ \E p \in Procs : Step(p) \/ GocConflict(p)

Spec == Init /\ [][Next]_vars

\* One request handler: the calls run one after another.
NextSeq ==
    \/ Tick
    \/ \E a \in SeqInputs : Start(1, a, MaxCalls) /\ UNCHANGED req
    \/ Step(1)

SpecSeq == InitSeq /\ [][NextSeq]_vars

\* Concurrent handlers of a user that the service creates, whose token keeps
\* its class, and for whom POST /credits/add is never called.
InitPlain == Init /\ store = Absent

PlainInputs(t) == {a \in ConcInputs(t) : a.op # "addBonus"}

NextPlain ==
    \/ Tick
    \/ \E p \in Procs : \E a \in PlainInputs(anon) : Start(p, a, MaxConcCalls) /\ UNCHANGED req
    \/ \E p \in Procs : GocStep(p) \/ ConsumeStep(p) \/ GocConflict(p)

SpecPlain == InitPlain /\ [][NextPlain]_vars

\* ------------------------------------------------------- an abandoned call
\* What the session of consume holds at position at, not yet committed: nothing
\* after the query of get_or_create or after the commit, and between the query
\* of consume and its commit the reset and the debit assigned to the object.
Pending(p, at) ==
    IF at = "c_write" /\ loc[p].ex
    THEN LET quota == get_daily_quota(args[p].trial)
             cur == IF should_reset_quota(loc[p], today) THEN Row(quota, today) ELSE loc[p]
         IN  {cur, Row(cur.credits - Cost(p), cur.qrd)}
    ELSE {store}

\* The caller gives up while consume is in flight (a timeout, a dropped
\* connection): the call stops where it is and finally: db.close() runs with
\* nothing committed.
Abandon(p) ==
    /\ args[p].op = "consume"
    /\ pc[p] # "idle"
    /\ \E pending \in Pending(p, pc[p]) : store' = CloseWithoutCommit(store, pending)
    /\ Finish(p, ErrRes("abandoned"))
    /\ UNCHANGED <<today, calls, pre, ledger, tokIn, costOut, hist, anon, tz, utcToday, req, dailyCalls, limiter, trial>>

NextAbandon ==
    \/ NextSeq
    \/ Abandon(1)

SpecAbandon == InitSeq /\ [][NextAbandon]_vars

\* ------------------------------------------------------ core/gemini_quota.py
\* _load: the object of the file, or {} when it cannot be read (the exception
\* is logged and swallowed).
load(q) == IF q.readable THEN q.counts ELSE NoCounts

\* _save: json.dump of data over the file; a failure is logged and swallowed
\* and the file keeps its content.
save(q, data) == IF q.writable THEN data ELSE q.counts

\* if count >= DAILY_LIMIT: return False
LimitReached(count) == count >= DAILY_LIMIT

\* check_and_increment() on date d.  The function is synchronous and has no
\* await: the handlers of the one event loop (uvicorn.run, no workers) run it
\* one at a time.
check_and_increment(q, d) ==
    LET data == load(q)
        count == data[d]
    IN  IF LimitReached(count)
        THEN [q EXCEPT !.calls = @ + 1, !.last = "refused"]
        ELSE [q EXCEPT !.counts = save(q, [data EXCEPT ![d] = count + 1]),
                       !.calls = @ + 1, !.last = "allowed", !.allowed[d] = @ + 1]

\* Calls already allowed and counted today when the model starts.
StartCounts == {0, DAILY_LIMIT - 1, DAILY_LIMIT}

Counted(c) == [NoQuota EXCEPT !.counts[0] = c, !.allowed[0] = c]

InitQuota ==
    /\ Base
    /\ store = Absent
    /\ hist = FALSE /\ anon = FALSE /\ tz = 0
    /\ limiter = NoLimiter /\ trial = NoTrial
    /\ \E c \in StartCounts : dailyCalls = Counted(c)

\* A handler calls check_gemini_quota().
CheckQuota ==
    /\ dailyCalls.calls < MaxGeminiCalls
    /\ dailyCalls' = check_and_increment(dailyCalls, today)
    /\ UNCHANGED <<store, today, calls, pc, args, loc, res, pre, ledger, tokIn, costOut, hist, anon, tz, utcToday, req, limiter, trial>>

\* The data directory changes: the file becomes unreadable (permissions, a
\* truncated or invalid JSON text) or unwritable (read-only volume), or is
\* repaired.
FileFault ==
    /\ \E r, w \in BOOLEAN :
          /\ <<r, w>> # <<dailyCalls.readable, dailyCalls.writable>>
          /\ dailyCalls' = [dailyCalls EXCEPT !.readable = r, !.writable = w]
    /\ UNCHANGED <<store, today, calls, pc, args, loc, res, pre, ledger, tokIn, costOut, hist, anon, tz, utcToday, req, limiter, trial>>

NextQuota ==
    \/ Tick
    \/ CheckQuota
    \/ FileFault

SpecQuota == InitQuota /\ [][NextQuota]_vars

\* -------------------------------------------------- middleware/rate_limiter.py
\* The clock advances by TimeStep seconds between two requests, or not at all.
TimeStep == 30

Paths == {"/health", "/", "/api/v1/scan/"}

\* [t for t in request_times if current_time - t < 60]
Kept(request_times, current_time) ==
    SelectSeq(request_times, LAMBDA t : current_time - t < 60)

\* A mutation: one more request passes.
LimitExceededOff(n) == n > RATE_LIMIT_PER_MINUTE

\* if len(request_times) >= settings.RATE_LIMIT_PER_MINUTE
LimitExceeded(n) == n >= RATE_LIMIT_PER_MINUTE

InitRate ==
    /\ Base
    /\ store = Absent
    /\ hist = FALSE /\ anon = FALSE /\ tz = 0
    /\ dailyCalls = NoQuota /\ trial = NoTrial
    /\ limiter = NoLimiter

\* dispatch: a request of client c for path arrives.  The method has no await
\* before call_next, so the requests of the event loop pass it one at a time.
Dispatch(c, path) ==
    /\ LET current_time == limiter.now
           request_times == Kept(limiter.requests[c], current_time)
           answer(status) == [client |-> c, path |-> path, status |-> status]
       IN  limiter' =
             IF path \in {"/health", "/"}
             THEN [limiter EXCEPT !.last = answer("forwarded")]
             ELSE IF LimitExceeded(Len(request_times))
             THEN [limiter EXCEPT !.requests[c] = request_times, !.last = answer("429")]
             ELSE [limiter EXCEPT !.requests[c] = Append(request_times, current_time),
                                  !.recent[c] = Append(@, current_time),
                                  !.last = answer("forwarded")]
    /\ UNCHANGED <<store, today, calls, pc, args, loc, res, pre, ledger, tokIn, costOut, hist, anon, tz, utcToday, req, dailyCalls, trial>>

\* Time passes.
Clock ==
    /\ limiter.now + TimeStep <= MaxTime
    /\ limiter' = [limiter EXCEPT
                     !.now = @ + TimeStep,
                     !.recent = [c \in Clients |->
                                   SelectSeq(limiter.recent[c],
                                             LAMBDA t : limiter.now + TimeStep - t < 60)]]
    /\ UNCHANGED <<store, today, calls, pc, args, loc, res, pre, ledger, tokIn, costOut, hist, anon, tz, utcToday, req, dailyCalls, trial>>

NextRate ==
    \/ \E c \in Clients : \E path \in Paths : Dispatch(c, path)
    \/ Clock

SpecRate == InitRate /\ [][NextRate]_vars

\* -------------------------------------- trial_service.py, api/endpoints/trial.py
Devices == {"device-aaaa-0001", "device-bbbb-0002", "dev-3"}

\* len(device_id)
DeviceLen(d) == IF d = "dev-3" THEN 5 ELSE 16

\* not body.device_id or len(body.device_id) < 10
DeviceInvalid(d) == d = "" \/ DeviceLen(d) < 10

\* any(True for _ in docs) on the query of the collection by device_id
Found(t, device_id) == device_id \in t.docs

\* has_used_trial: False without a device id or a client, and on any exception.
has_used_trial(t, device_id) ==
    IF device_id = "" \/ t.db = "none" THEN FALSE
    ELSE IF t.db = "failing" THEN FALSE
    ELSE Found(t, device_id)

\* register_trial_device: returns without a device id or a client; the
\* exception of a failed add is logged and swallowed.
register_trial_device(t, device_id) ==
    LET called == [t EXCEPT !.registered = @ \cup {device_id}]
    IN  IF device_id = "" \/ t.db = "none" THEN called
        ELSE IF t.db = "failing" THEN called
        ELSE [called EXCEPT !.docs = @ \cup {device_id}]

\* The server starts with Firebase initialized or without it.
InitTrial ==
    /\ Base
    /\ store = Absent
    /\ hist = FALSE /\ anon = FALSE /\ tz = 0
    /\ dailyCalls = NoQuota /\ limiter = NoLimiter
    /\ \E db \in {"up", "none"} : trial = [NoTrial EXCEPT !.db = db]

\* POST /trial/check
CheckTrial(d) ==
    /\ trial' = [trial EXCEPT !.last =
                    [op |-> "check", device |-> d,
                     answer |-> IF DeviceInvalid(d) THEN "device_id_invalid"
                                ELSE IF has_used_trial(trial, d) THEN "used"
                                ELSE "can_use_trial"]]
    /\ UNCHANGED <<store, today, calls, pc, args, loc, res, pre, ledger, tokIn, costOut, hist, anon, tz, utcToday, req, dailyCalls, limiter>>

\* POST /trial/register
RegisterTrial(d) ==
    /\ trial' = IF DeviceInvalid(d)
                THEN [trial EXCEPT !.last = [op |-> "register", device |-> d, answer |-> "422"]]
                ELSE [register_trial_device(trial, d) EXCEPT
                         !.last = [op |-> "register", device |-> d, answer |-> "ok"]]
    /\ UNCHANGED <<store, today, calls, pc, args, loc, res, pre, ledger, tokIn, costOut, hist, anon, tz, utcToday, req, dailyCalls, limiter>>

\* Firestore becomes unreachable, or reachable again.
DbFault ==
    /\ trial.db # "none"
    /\ trial' = [trial EXCEPT !.db = IF @ = "up" THEN "failing" ELSE "up"]
    /\ UNCHANGED <<store, today, calls, pc, args, loc, res, pre, ledger, tokIn, costOut, hist, anon, tz, utcToday, req, dailyCalls, limiter>>

NextTrial ==
    \/ \E d \in Devices : CheckTrial(d) \/ RegisterTrial(d)
    \/ DbFault

SpecTrial == InitTrial /\ [][NextTrial]_vars

\* ------------------------------------------------ calculate_cost_from_tokens
InitCost ==
    /\ Base
    /\ Fresh
    /\ store = Absent
    /\ hist = FALSE
    /\ anon = FALSE
    /\ tz = 0

\* The caller picks a token count.
CostInput ==
    /\ costOut = 0
    /\ tokIn = 0
    /\ \E t \in ((0 - MaxTokens)..MaxTokens) \ {0} : tokIn' = t
    /\ UNCHANGED <<store, today, calls, pc, args, loc, res, pre, ledger, costOut, hist, anon, tz, utcToday, req, dailyCalls, limiter, trial>>

CostCompute ==
    /\ costOut = 0
    /\ costOut' = calculate_cost_from_tokens(tokIn)
    /\ UNCHANGED <<store, today, calls, pc, args, loc, res, pre, ledger, tokIn, hist, anon, tz, utcToday, req, dailyCalls, limiter, trial>>

NextCost == CostInput \/ CostCompute

SpecCost == InitCost /\ [][NextCost]_vars

\* ---------------------------------------------------------------- endpoints
\* One handler at a time serves POST /scan, POST /chat, POST /chat/stream,
\* GET /credits and POST /credits/add for the user; its service calls are the
\* calls of process 1.  req.pc is the handler's position: call1 and call2 are
\* the places of its service calls, wait1 and wait2 their returns.  req.ensured,
\* req.inference, req.consumeCalled and req.row (the row when the first call
\* returned) are the history of the request.
Endpoints == {"scan", "chat", "stream", "credits", "add"}
BillableEndpoints == {"scan", "chat", "stream"}

\* usage_metadata of a chat answer: prompt_token_count + candidates_token_count
ChatTokens == {0, 800, 5500}

\* Results of analyze_medication_image: an answer of the model, AIServiceError
\* with and without "quota" in its message, another exception (RetryError).
ScanOutcomes == {"answer", "ai_quota", "ai_error", "error"}

\* The text the model answered: a JSON object with its medication_name and
\* confidence, or a text that json.loads rejects.
Answer(n, c) == [json |-> TRUE, medication_name |-> n, confidence |-> c]
NotJson == [json |-> FALSE, medication_name |-> "", confidence |-> ""]

ScanAnswers ==
    {Answer("Doliprane 1000 mg", "high"), Answer("Doliprane 1000 mg", "low"),
     Answer("Médicament non identifié", "low"), Answer("Medication not identified", "medium"),
     Answer("Unknown", "low"), Answer("Unknown", "high"),
     Answer("", "low"), Answer("", "high"), NotJson}

\* usage_metadata of a vision answer, stored as _tokens_used and read by no one.
ScanTokens == {2500}

\* The name _parse_vision_response gives an answer without one: the bytes of
\* the literal in gemini_service.py, whose accented letters are encoded twice.
NotIdentifiedName == "MÃ©dicament non identifiÃ©"

\* _parse_vision_response: the defaults of a parsed object, and the object
\* returned on json.JSONDecodeError.
parse_vision_response(a) ==
    IF a.json
    THEN [medication_name |-> IF a.medication_name = "" THEN NotIdentifiedName
                              ELSE a.medication_name,
          confidence |-> IF a.confidence \in {"high", "medium", "low"} THEN a.confidence
                         ELSE "medium"]
    ELSE [medication_name |-> NotIdentifiedName, confidence |-> "low"]

\* str.lower() on the names above.
lower(name) ==
    CASE name = "Doliprane 1000 mg" -> "doliprane 1000 mg"
      [] name = "Médicament non identifié" -> "médicament non identifié"
      [] name = "Medication not identified" -> "medication not identified"
      [] name = "Unknown" -> "unknown"
      [] name = NotIdentifiedName -> "mã©dicament non identifiã©"
      [] OTHER -> name

\* sub in text, for the two texts scan_medication looks for.
Contains(sub, text) ==
    CASE sub = "non identifié" -> text \in {"médicament non identifié"}
      [] sub = "not identified" -> text \in {"medication not identified"}

\* scan_medication: identification_failed
identification_failed(med_name, confidence) ==
    \/ Contains("non identifié", lower(med_name))
    \/ Contains("not identified", lower(med_name))
    \/ /\ confidence = "low"
       /\ med_name = "" \/ lower(med_name) \in {"unknown", "médicament non identifié"}

TimeZones == {-1, 0, 1}

InitApi == Base /\ Fresh /\ hist = TRUE /\ anon \in BOOLEAN /\ tz \in TimeZones

\* The handlers that bill run on a server in UTC.
InitFlow ==
    /\ Base
    /\ hist = TRUE /\ anon \in BOOLEAN /\ tz = 0
    /\ limiter = NoLimiter /\ trial = NoTrial
    /\ \E c \in StartCounts : dailyCalls = Counted(c)

\* The handler answers: an HTTP status and, in a stream, the last event.
Respond(r, status, event) == [r EXCEPT !.pc = "idle", !.status = status, !.event = event]

\* A mutation: the handler debits before it calls the model.
EnsuredDebitFirst(r, row) == [r EXCEPT !.pc = "call2", !.ensured = TRUE, !.row = row]

\* ensure_credits returned: the handler goes on to the inference.
Ensured(r, row) == [r EXCEPT !.pc = "infer", !.ensured = TRUE, !.row = row]

\* _next_reset_utc: midnight UTC of the day after now, as the index of that day.
next_reset_utc(now) == now + 1

\* get_current_user / verify_token: the request of the user arrives.
ApiStart(ep) ==
    /\ req.pc = "idle"
    /\ pc[1] = "idle"
    /\ calls + 2 <= 2 * MaxRequests
    /\ req' = [NoReq EXCEPT !.ep = ep, !.trial = anon, !.pc = "call1",
                            !.counts0 = dailyCalls.counts]
    /\ UNCHANGED <<store, today, calls, pc, args, loc, res, pre, ledger, tokIn, costOut, hist, anon, tz, utcToday, dailyCalls, limiter, trial>>

\* The first service call of each handler.
FirstCalls(ep, t) ==
    CASE ep = "scan" -> {Billable("ensureSufficient", t, SCAN_COST, <<>>)}
      [] ep \in {"chat", "stream"} -> {Billable("ensureSufficient", t, CHAT_COST, <<>>)}
      [] ep = "credits" -> {Tri("getOrCreate", t)}
      [] ep = "add" -> {Bonus(t, a) : a \in BonusAmounts}

ApiCall1 ==
    /\ req.pc = "call1"
    /\ \E a \in FirstCalls(req.ep, req.trial) : Start(1, a, 2 * MaxRequests)
    /\ req' = [req EXCEPT !.pc = "wait1"]

\* A mutation: the Gemini call is counted before the credits are looked at.
ScanEnsuredCounted ==
    /\ req.ep = "scan" /\ req.pc = "wait1" /\ pc[1] = "idle"
    /\ dailyCalls' = check_and_increment(dailyCalls, today)
    /\ req' = IF res[1].status = "ok" THEN Ensured(req, store)
              ELSE Respond([req EXCEPT !.row = store], res[1].status, "none")
    /\ UNCHANGED <<store, today, calls, pc, args, loc, res, pre, ledger, tokIn, costOut, hist, anon, tz, utcToday, limiter, trial>>

\* scan_medication: ensure_credits returned or raised; except (..., HTTPException): raise
ScanEnsured ==
    /\ req.ep = "scan" /\ req.pc = "wait1" /\ pc[1] = "idle"
    /\ req' = IF res[1].status = "ok" THEN Ensured(req, store)
              ELSE Respond([req EXCEPT !.row = store], res[1].status, "none")
    /\ UNCHANGED <<store, today, calls, pc, args, loc, res, pre, ledger, tokIn, costOut, hist, anon, tz, utcToday, dailyCalls, limiter, trial>>

\* chat_with_assistant: ensure_credits is inside the try whose
\* except Exception turns every exception but AIServiceError into a 500.
ChatEnsured ==
    /\ req.ep = "chat" /\ req.pc = "wait1" /\ pc[1] = "idle"
    /\ req' = IF res[1].status = "ok" THEN Ensured(req, store)
              ELSE Respond([req EXCEPT !.row = store], "500", "none")
    /\ UNCHANGED <<store, today, calls, pc, args, loc, res, pre, ledger, tokIn, costOut, hist, anon, tz, utcToday, dailyCalls, limiter, trial>>

\* chat_with_assistant_stream: ensure_credits before the StreamingResponse;
\* except HTTPException: raise
StreamEnsured ==
    /\ req.ep = "stream" /\ req.pc = "wait1" /\ pc[1] = "idle"
    /\ req' = IF res[1].status = "ok" THEN Ensured(req, store)
              ELSE Respond([req EXCEPT !.row = store], res[1].status, "none")
    /\ UNCHANGED <<store, today, calls, pc, args, loc, res, pre, ledger, tokIn, costOut, hist, anon, tz, utcToday, dailyCalls, limiter, trial>>

\* get_my_credits: credits_obj.get("credits", 0) on the UserCredits object
\* get_or_create returned: the class has no attribute get, AttributeError, which
\* the handler of Exception answers with a 500.
CreditsReturn ==
    /\ req.ep = "credits" /\ req.pc = "wait1" /\ pc[1] = "idle"
    /\ req' = Respond([req EXCEPT !.row = store], "500", "none")
    /\ UNCHANGED <<store, today, calls, pc, args, loc, res, pre, ledger, tokIn, costOut, hist, anon, tz, utcToday, dailyCalls, limiter, trial>>

\* add_credits (endpoint): the new balance and _next_reset_utc(), or the
\* HTTPException of the service as it is.
AddReturn ==
    /\ req.ep = "add" /\ req.pc = "wait1" /\ pc[1] = "idle"
    /\ req' = IF res[1].status = "ok"
              THEN [Respond([req EXCEPT !.row = store], "200", "none")
                        EXCEPT !.credits = res[1].val, !.next = next_reset_utc(utcToday)]
              ELSE Respond([req EXCEPT !.row = store], res[1].status, "none")
    /\ UNCHANGED <<store, today, calls, pc, args, loc, res, pre, ledger, tokIn, costOut, hist, anon, tz, utcToday, dailyCalls, limiter, trial>>

\* scan_medication after the analysis answered a: the consume call when the
\* identification did not fail, the response without it when it did.
Analyzed(r, a, t) ==
    LET analysis == parse_vision_response(a)
        rr == [r EXCEPT !.inference = "ok", !.answer = a, !.tokens = t]
    IN  IF identification_failed(analysis.medication_name, analysis.confidence)
        THEN Respond(rr, "200", "none")
        ELSE [rr EXCEPT !.pc = "call2"]

\* scan_medication: check_gemini_quota (429 when it refuses), then
\* analyze_medication_image.
ScanAnalyze ==
    /\ req.ep = "scan" /\ req.pc = "infer"
    /\ dailyCalls.calls < MaxGeminiCalls
    /\ dailyCalls' = check_and_increment(dailyCalls, today)
    /\ IF dailyCalls'.last = "refused"
       THEN req' = Respond(req, "429", "none")
       ELSE \E o \in ScanOutcomes :
             \/ /\ o = "answer"
                /\ \E a \in ScanAnswers : \E t \in ScanTokens : req' = Analyzed(req, a, t)
             \/ /\ o # "answer"
                /\ req' = Respond([req EXCEPT !.inference = "failed"],
                                  CASE o = "ai_quota" -> "429"
                                    [] o = "ai_error" -> "503"
                                    [] o = "error" -> "500",
                                  "none")
    /\ UNCHANGED <<store, today, calls, pc, args, loc, res, pre, ledger, tokIn, costOut, hist, anon, tz, utcToday, limiter, trial>>

\* chat_with_assistant: gemini_service.chat answers with its token count or
\* raises AIServiceError, which the handler re-raises (503).
ChatInfer ==
    /\ req.ep = "chat" /\ req.pc = "infer"
    /\ \/ \E t \in ChatTokens : req' = [req EXCEPT !.pc = "call2", !.inference = "ok", !.tokens = t]
       \/ req' = Respond([req EXCEPT !.inference = "failed"], "503", "none")
    /\ UNCHANGED <<store, today, calls, pc, args, loc, res, pre, ledger, tokIn, costOut, hist, anon, tz, utcToday, dailyCalls, limiter, trial>>

\* generate(): gemini_service.chat_stream runs to its last chunk, or raises
\* AIServiceError, sent as an error event of the stream.
StreamInfer ==
    /\ req.ep = "stream" /\ req.pc = "infer"
    /\ \/ \E t \in ChatTokens : req' = [req EXCEPT !.pc = "call2", !.inference = "ok", !.tokens = t]
       \/ req' = Respond([req EXCEPT !.inference = "failed"], "200", "error")
    /\ UNCHANGED <<store, today, calls, pc, args, loc, res, pre, ledger, tokIn, costOut, hist, anon, tz, utcToday, dailyCalls, limiter, trial>>

\* The consume call of each handler: the fixed cost of a scan; for a chat the
\* tokens of the answer when it reported some.
ConsumeCall(r) ==
    IF r.ep = "scan"
    THEN Billable("consume", r.trial, SCAN_COST, <<>>)
    ELSE Billable("consume", r.trial, CHAT_COST, IF r.tokens > 0 THEN <<r.tokens>> ELSE <<>>)

ApiConsume ==
    /\ req.pc = "call2"
    /\ Start(1, ConsumeCall(req), 2 * MaxRequests)
    /\ req' = [req EXCEPT !.pc = "wait2", !.consumeCalled = TRUE]

\* scan_medication after consume: the response, or the HTTPException re-raised.
ScanConsumed ==
    /\ req.ep = "scan" /\ req.pc = "wait2" /\ pc[1] = "idle"
    /\ req' = Respond(req, IF res[1].status = "ok" THEN "200" ELSE res[1].status, "none")
    /\ UNCHANGED <<store, today, calls, pc, args, loc, res, pre, ledger, tokIn, costOut, hist, anon, tz, utcToday, dailyCalls, limiter, trial>>

\* chat_with_assistant after consume: the response, or except Exception: 500.
ChatConsumed ==
    /\ req.ep = "chat" /\ req.pc = "wait2" /\ pc[1] = "idle"
    /\ req' = Respond(req, IF res[1].status = "ok" THEN "200" ELSE "500", "none")
    /\ UNCHANGED <<store, today, calls, pc, args, loc, res, pre, ledger, tokIn, costOut, hist, anon, tz, utcToday, dailyCalls, limiter, trial>>

\* generate() after consume: the done event; except HTTPException: the
\* INSUFFICIENT_CREDITS event for a 402; except Exception: an error event.
StreamConsumed ==
    /\ req.ep = "stream" /\ req.pc = "wait2" /\ pc[1] = "idle"
    /\ req' = Respond(req, "200",
                      CASE res[1].status = "ok" -> "done"
                        [] res[1].status = "402" -> "INSUFFICIENT_CREDITS"
                        [] OTHER -> "error")
    /\ UNCHANGED <<store, today, calls, pc, args, loc, res, pre, ledger, tokIn, costOut, hist, anon, tz, utcToday, dailyCalls, limiter, trial>>

\* The handlers of the balance (GET /credits, POST /credits/add), on a server
\* in any time zone.
NextApi ==
    \/ Tick
    \/ UtcMidnight
    \/ Register
    \/ \E ep \in Endpoints \ BillableEndpoints : ApiStart(ep)
    \/ ApiCall1
    \/ GocStep(1) \/ AddStep(1)
    \/ CreditsReturn \/ AddReturn

SpecApi == InitApi /\ [][NextApi]_vars

\* The handlers that bill: scan, chat and chat/stream.
NextFlow ==
    \/ Tick
    \/ Register
    \/ \E ep \in BillableEndpoints : ApiStart(ep)
    \/ ApiCall1
    \/ GocStep(1) \/ ConsumeStep(1)
    \/ ScanEnsured \/ ChatEnsured \/ StreamEnsured
    \/ ScanAnalyze \/ ChatInfer \/ StreamInfer
    \/ ApiConsume
    \/ ScanConsumed \/ ChatConsumed \/ StreamConsumed

SpecFlow == InitFlow /\ [][NextFlow]_vars

\* ------------------------------------------------------------------ claims
\* The words of the specification, stated without the operators of the model.
Quota(isTrial) == IF isTrial THEN 10 ELSE 30

\* shouldReset: no account yet, no reset date, or a reset date before d.
Due(row, d) == ~row.ex \/ row.qrd = NoDate \/ row.qrd < d

\* The balance an account has on day d once its due creation or reset is done.
CurrentBalance(row, d, isTrial) == IF Due(row, d) THEN Quota(isTrial) ELSE row.credits

\* ceil(t / 1000) for t > 0: the least n with n * 1000 >= t.
CeilThousand(t) == CHOOSE n \in 1..(t \div 1000 + 1) : n * 1000 >= t /\ (n - 1) * 1000 < t

ExpectedCost(cost, tokens) ==
    IF tokens # <<>> /\ tokens[1] > 0 THEN CeilThousand(tokens[1]) ELSE cost

\* The call of p has returned or raised (its arguments and pre[p] are kept
\* under SpecSeq).
Done(p) == pc[p] = "idle" /\ res[p].status # "none"

DoneOp(p, ops) == Done(p) /\ args[p].op \in ops

\* The call of p returned the value v.
Returned(p, v) == res[p].status = "ok" /\ res[p].val = v

\* C1: consume calls run one after another: the stored balance is never
\* negative; a consume whose effective cost exceeds the current balance (the
\* balance after the reset that is due) fails with 402 and leaves that balance,
\* and any other consume succeeds and leaves the balance minus the cost.
C1_ConsumeNeverNegative ==
    /\ store.ex => store.credits >= 0
    /\ \A p \in Procs :
          (DoneOp(p, {"consume"}) /\ pre[p].day = today) =>
             LET cur == CurrentBalance(pre[p].row, today, args[p].trial)
             IN  /\ store.ex
                 /\ IF Cost(p) > cur
                    THEN res[p].status = "402" /\ store.credits = cur
                    ELSE res[p].status = "ok" /\ store.credits = cur - Cost(p)

\* C1 witness: a consume on an account already reset today failed with 402.
C1_Witness ==
    /\ DoneOp(1, {"consume"})
    /\ res[1].status = "402"
    /\ pre[1].day = today
    /\ pre[1].row.ex /\ pre[1].row.qrd = today
    /\ store = pre[1].row

\* C2: under every interleaving of the round trips of concurrent getOrCreate,
\* ensureSufficient, consume and addBonus calls, the stored balance is >= 0.
C2_BalanceNonNegative == store.ex => store.credits >= 0

\* C2 witness: a consume is about to commit from a balance it read before the
\* other handler committed its own debit.
C2_Witness ==
    \E p, q \in Procs :
        /\ p # q
        /\ pc[p] = "c_write" /\ pc[q] = "c_refresh"
        /\ loc[p].ex /\ loc[p].credits > store.credits
        /\ args[p].op = "consume" /\ args[q].op = "consume"

\* C3: concurrent consume calls on one day after a creation or reset, with no
\* other reset and no bonus: once they have all returned the balance is the
\* granted balance minus the costs of the calls that succeeded, and those
\* costs never add up to more than the granted balance.
C3_NoLostDebit ==
    ledger.clean =>
        /\ ledger.paid <= ledger.base
        /\ AllIdle => (store.ex /\ store.credits = ledger.base - ledger.paid)

\* C4: once a reset of the day and a debit after it are committed, no later
\* commit of that day sets the balance back to the daily quota.
C4_ResetOncePerDay == ~ledger.clobbered

\* C5: a getOrCreate on an account created or reset today returns the stored
\* record and changes neither its balance nor its quota_reset_date.
C5_GetOrCreateIdempotent ==
    \A p \in Procs :
        (DoneOp(p, {"getOrCreate"}) /\ pre[p].day = today
            /\ pre[p].row.ex /\ pre[p].row.qrd = today) =>
        /\ store = pre[p].row
        /\ Returned(p, pre[p].row.credits)

\* C5 witness: getOrCreate returned on an account reset today whose balance is
\* below the quota of the class the call passed.
C5_Witness ==
    /\ DoneOp(1, {"getOrCreate"})
    /\ pre[1].day = today
    /\ pre[1].row.ex /\ pre[1].row.qrd = today
    /\ pre[1].row.credits < Quota(args[1].trial)

\* C6: the step in which a consume call fails with 402 leaves the stored
\* balance and quota_reset_date as they were, and ends the call: no part of the
\* cost is applied and the call takes no further step.
C6_FailedConsumeNoMutation ==
    [][\A p \in Procs :
          (args[p].op = "consume" /\ res[p].status = "none" /\ res'[p].status = "402") =>
             (store' = store /\ pc'[p] = "idle" /\ calls' = calls)]_vars

\* C6 witness: a consume failed after the date advanced under it: the reset it
\* applied in its session was not stored.
C6_Witness ==
    /\ DoneOp(1, {"consume"})
    /\ res[1].status = "402"
    /\ store.ex /\ store.qrd # NoDate /\ store.qrd < today
    /\ pre[1].day < today

C8_EffectiveCost ==
    \A p \in Procs :
        (Done(p) /\ pre[p].day = today) =>
            LET cur == CurrentBalance(pre[p].row, today, args[p].trial)
                cost == ExpectedCost(args[p].cost, args[p].tokens)
            IN  /\ args[p].op = "consume" =>
                      IF cur >= cost
                      THEN Returned(p, cur - cost)
                      ELSE res[p].status = "402"
                /\ args[p].op = "ensureSufficient" =>
                      (res[p].status = "402" <=> cur < cost)
                /\ (args[p] = Billable("consume", FALSE, 5, <<2500>>) /\ ~pre[p].row.ex) =>
                      (res[p].val = 27 /\ store.credits = 27)

\* C8 witness: the end-to-end scenario of the specification.
C8_Witness ==
    /\ Done(1)
    /\ args[1] = Billable("consume", FALSE, 5, <<2500>>)
    /\ ~pre[1].row.ex /\ pre[1].day = today
    /\ Returned(1, 27)

\* C9: costFromTokens(t) is 1 for t <= 0 and ceil(t / 1000) for t > 0; it is
\* at least 1 and non-decreasing in t; 0, 1, 1000 and -5 give 1, 1001 gives 2.
C9_CostFromTokens ==
    costOut # 0 =>
        /\ tokIn <= 0 => costOut = 1
        /\ tokIn > 0 => (costOut * 1000 >= tokIn /\ (costOut - 1) * 1000 < tokIn)
        /\ costOut >= 1
        /\ calculate_cost_from_tokens(tokIn - 1) <= costOut
        /\ tokIn \in {0, 1, 1000, -5} => costOut = 1
        /\ tokIn = 1001 => costOut = 2

\* C9 witness: 1001 tokens cost 2.
C9_Witness == tokIn = 1001 /\ costOut = 2

\* C10: the commit that stores the first row of a user stores the quota of the
\* class the call passed (10 trial, 30 full) with quota_reset_date = today,
\* whatever the operation, and every call that ends leaves an account stored.
C10_FirstAccessSeeds ==
    [][\A p \in Procs :
          /\ (pc'[p] # pc[p] /\ ~store.ex /\ store'.ex) =>
                store' = Row(Quota(args[p].trial), today)
          /\ (pc[p] # "idle" /\ pc'[p] = "idle") => store'.ex]_vars

\* C10 witness: addBonus was the first access of a trial user: the account
\* holds the seed of 10 plus the bonus.
C10_Witness ==
    /\ DoneOp(1, {"addBonus"})
    /\ ~pre[1].row.ex /\ pre[1].day = today
    /\ args[1].trial
    /\ store = Row(10 + args[1].amount, today)

\* C11: an addBonus call on an account whose balance is 0 and whose
\* quota_reset_date is today ends with the quota-exhausted error (403), whatever
\* the positive amount and the class passed, and the stored row is unchanged.
C11_BonusRefusedWhenExhausted ==
    \A p \in Procs :
        (DoneOp(p, {"addBonus"}) /\ pre[p].day = today /\ args[p].amount > 0
            /\ pre[p].row.ex /\ pre[p].row.credits = 0 /\ pre[p].row.qrd = today) =>
        /\ res[p].status = "403"
        /\ store = pre[p].row

\* C11 witness: a bonus of 1 passed with the full class was refused on an
\* account exhausted today.
C11_Witness ==
    /\ DoneOp(1, {"addBonus"})
    /\ args[1].amount = 1 /\ ~args[1].trial
    /\ pre[1].day = today
    /\ pre[1].row = Row(0, today)
    /\ res[1].status = "403"
    /\ store.credits = 0

\* C12: an addBonus call on an account whose quota_reset_date is before today
\* returns quota(class) + amount and stores it with quota_reset_date = today,
\* whatever the balance was; on an account reset today whose balance is not 0
\* it returns and stores balance + amount.
C12_BonusAfterReset ==
    \A p \in Procs :
        (DoneOp(p, {"addBonus"}) /\ pre[p].day = today /\ pre[p].row.ex) =>
            LET row == pre[p].row
                q == Quota(args[p].trial)
                a == args[p].amount
            IN  /\ (row.qrd # NoDate /\ row.qrd < today) =>
                      (Returned(p, q + a) /\ store = Row(q + a, today))
                /\ (row.qrd = today /\ row.credits # 0) =>
                      (Returned(p, row.credits + a) /\ store = Row(row.credits + a, today))

\* C12 witness: balance 0 reset yesterday, addBonus(5) of a full account: 35.
C12_Witness ==
    /\ DoneOp(1, {"addBonus"})
    /\ args[1].amount = 5 /\ ~args[1].trial
    /\ pre[1].day = today
    /\ pre[1].row.ex /\ pre[1].row.credits = 0
    /\ pre[1].row.qrd # NoDate /\ pre[1].row.qrd < today
    /\ Returned(1, 35)

\* C13: ensureSufficient raises 402 exactly when the balance get_or_create
\* returns (the balance after the creation or reset that is due) is below the
\* effective cost, and the error carries that balance and that cost; otherwise,
\* a balance equal to the cost included, it returns nothing.
C13_EnsureFailsIffShort ==
    \A p \in Procs :
        (DoneOp(p, {"ensureSufficient"}) /\ pre[p].day = today) =>
            LET cur == CurrentBalance(pre[p].row, today, args[p].trial)
                cost == ExpectedCost(args[p].cost, args[p].tokens)
            IN  IF cur < cost
                THEN res[p].status = "402" /\ res[p].detail = <<cur, cost>>
                ELSE res[p] = [status |-> "ok", val |-> 0, detail |-> <<>>]

\* C13 witness: a balance of 5 failed the check for 10500 tokens: the error
\* reports the balance 5 and the cost 11.
C13_Witness ==
    /\ DoneOp(1, {"ensureSufficient"})
    /\ pre[1].day = today
    /\ pre[1].row = Row(5, today)
    /\ args[1].tokens = <<10500>>
    /\ res[1].status = "402"
    /\ res[1].detail = <<5, 11>>

\* C14: a finished ensureSufficient call, failed or not, leaves the row it
\* found, or the row of the creation or reset that was due on a day of the
\* call (the quota of the class, dated that day): nothing is debited or held.
C14_EnsureIsCheckOnly ==
    \A p \in Procs :
        DoneOp(p, {"ensureSufficient"}) =>
            \/ store = pre[p].row /\ ~Due(pre[p].row, pre[p].day)
            \/ \E d \in pre[p].day..today :
                  /\ Due(pre[p].row, d)
                  /\ store = Row(Quota(args[p].trial), d)

\* C14 witness: the check succeeded on a balance below the quota and the row
\* still holds that balance.
C14_Witness ==
    /\ DoneOp(1, {"ensureSufficient"})
    /\ res[1].status = "ok"
    /\ pre[1].row.ex /\ pre[1].row.qrd = today
    /\ pre[1].row.credits \in 1..(Quota(args[1].trial) - 1)
    /\ Cost(1) > 0
    /\ store = pre[1].row

\* C15: quota_reset_date never decreases; a step that changes it, or stores
\* the first row, finds it absent or before today and stores today together
\* with the quota as the balance (the quota minus the cost or plus the amount
\* when consume or add_credits applies the reset in the commit of its own debit
\* or bonus).
C15_ResetDateMonotone ==
    [][/\ store.qrd <= store'.qrd
       /\ (store'.qrd # store.qrd \/ (~store.ex /\ store'.ex)) =>
             /\ Due(store, today)
             /\ store'.qrd = today
             /\ \E p \in Procs :
                   /\ pc'[p] # pc[p]
                   /\ store'.credits = Quota(args[p].trial)
                         + (CASE pc[p] = "c_write" -> 0 - Cost(p)
                              [] pc[p] = "a_write" -> args[p].amount
                              [] OTHER -> 0)]_vars

\* C16: the reset boundary is midnight UTC whatever the time zone of the
\* server: a get_or_create that finds a row resets it exactly when the row has
\* no date or a date before the UTC date of the call, and the next_reset_at a
\* successful POST /credits/add reports, on a row dated with the day of the
\* answer, is the midnight UTC that ends that day.
C16_ResetAtUtcMidnight ==
    [][/\ \A p \in Procs :
             (pc[p] = "goc_write" /\ pc'[p] # "goc_write" /\ loc[p].ex) =>
                (pc'[p] = "goc_refresh" <=> (loc[p].qrd = NoDate \/ loc[p].qrd < utcToday))
       /\ (req.pc # "idle" /\ req'.pc = "idle" /\ req'.ep = "add" /\ req'.status = "200"
              /\ store'.qrd = today') =>
             req'.next = store'.qrd + 1]_vars

\* C17: while the row holds balance 0 dated today, no step of any operation
\* changes the balance as long as the date stays; once the date has advanced,
\* the get_or_create step of the next operation stores the quota dated today.
C17_ExhaustedUntilNextDay ==
    [][/\ (store.ex /\ store.credits = 0 /\ store.qrd = today /\ today' = today) =>
             store'.credits = 0
       /\ \A p \in Procs :
             (store.ex /\ store.credits = 0 /\ store.qrd # NoDate /\ store.qrd < today
                 /\ pc[p] = "goc_write" /\ loc[p] = store /\ pc'[p] # "goc_write") =>
                store' = Row(Quota(args[p].trial), today)]_vars

\* C18: a scan, chat or streaming chat request whose ensure_credits or consume
\* raised the 402 of an insufficient balance is answered with HTTP 402, or in
\* a stream with the INSUFFICIENT_CREDITS event, and never with a 500.
C18_InsufficientIs402 ==
    (req.pc = "idle" /\ req.ep \in {"scan", "chat", "stream"} /\ res[1].status = "402") =>
        /\ req.status # "500"
        /\ req.status = "402" \/ (req.ep = "stream" /\ req.event = "INSUFFICIENT_CREDITS")

\* C19: in a scan, chat or streaming chat request the inference is called only
\* once ensure_credits has returned, consume is called only once the inference
\* has returned a result, and a request that ends with a failed check or a
\* failed inference has called no consume and leaves the row as it was when
\* ensure_credits ended.
C19_CheckInferConsumeOrder ==
    /\ req.inference # "none" => req.ensured
    /\ req.consumeCalled => (req.ensured /\ req.inference = "ok")
    /\ (req.pc = "idle" /\ req.ep \in {"scan", "chat", "stream"}
           /\ (~req.ensured \/ req.inference = "failed")) =>
          (~req.consumeCalled /\ store = req.row)

\* C19 witness: a chat request on a balance already debited passed the check,
\* its inference failed, and the balance is the same.
C19_Witness ==
    /\ req.pc = "idle" /\ req.ep = "chat"
    /\ req.ensured /\ req.inference = "failed"
    /\ store.ex /\ store.qrd = today /\ store.credits < Quota(req.trial)
    /\ store = req.row

\* C20: getBalance returns the balance after the creation or reset that is
\* due, and GET /credits answers 200 with that balance.
C20_BalanceEndpoints ==
    /\ \A p \in Procs :
          (DoneOp(p, {"getBalance"}) /\ pre[p].day = today) =>
              Returned(p, CurrentBalance(pre[p].row, today, args[p].trial))
    /\ (req.pc = "idle" /\ req.ep = "credits") =>
          (req.status = "200" /\ store.ex /\ req.credits = store.credits)

\* C21: the debit of consume is one write to the store.  No step of a consume
\* call, the step that abandons it included, leaves the stored row anywhere but
\* where it was, at the row get_or_create resets it to, or (the commit of
\* consume, in one step) at the balance before the debit minus the effective cost.
C21_DebitIsOneWrite ==
    [][\A p \in Procs :
         (args[p].op = "consume" /\ pc[p] # "idle" /\ pc'[p] # pc[p]) =>
            LET before == CurrentBalance(store, today, args[p].trial)
                day == IF Due(store, today) THEN today ELSE store.qrd
                cost == ExpectedCost(args[p].cost, args[p].tokens)
            IN  \/ store' = store
                \/ /\ pc[p] = "goc_write"
                   /\ Due(store, today)
                   /\ store' = Row(before, today)
                \/ /\ pc[p] = "c_write" /\ pc'[p] = "c_refresh"
                   /\ cost <= before
                   /\ store' = Row(before - cost, day)]_vars

\* consume is abandoned between its query and its commit, on a day the reset is
\* due in its session: the row keeps the balance it had.
C21_Witness ==
    /\ res[1].status = "abandoned"
    /\ pc[1] = "idle"
    /\ pre[1].row.ex /\ pre[1].row.credits = 4 /\ pre[1].row.qrd = 0
    /\ today = 1
    /\ store = pre[1].row

\* C22: the row stores no account class.  A call that finds the row missing or
\* its reset due leaves the quota of the class it passes itself, whatever class
\* created the row; a call on a day with no reset due leaves the row as it
\* found it, whatever class it passes.
C22_ClassOfCurrentCall ==
    /\ DOMAIN store = {"ex", "credits", "qrd"}
    /\ \A p \in Procs :
         (DoneOp(p, {"getOrCreate", "getBalance", "ensureSufficient"}) /\ pre[p].day = today) =>
            IF Due(pre[p].row, today)
            THEN store = Row(IF args[p].trial THEN 10 ELSE 30, today)
            ELSE store = pre[p].row

\* A row that holds the full quota of the day before is reset to 10 by a call
\* that passes isTrial = TRUE.
C22_Witness ==
    /\ DoneOp(1, {"getOrCreate"})
    /\ args[1].trial
    /\ pre[1].row = Row(30, 0)
    /\ pre[1].day = 1
    /\ store = Row(10, 1)

\* C23: a scan whose analysis answered is debited if and only if the answer
\* identifies a medication, and then by 5 whatever the tokens of the answer; a
\* scan whose answer names no medication (no name, a name that says not
\* identified, or "unknown" with low confidence) is answered 200 with the row
\* as ensure_credits left it.
C23_ScanDebitsIffIdentified ==
    (req.pc = "idle" /\ req.ep = "scan" /\ req.inference = "ok") =>
        LET a == req.answer
            failed == \/ ~a.json
                      \/ a.medication_name \in {"", "Médicament non identifié", "Medication not identified"}
                      \/ a.confidence = "low" /\ a.medication_name = "Unknown"
        IN  /\ req.status = "200"
            /\ IF failed
               THEN ~req.consumeCalled /\ store = req.row
               ELSE /\ req.consumeCalled
                    /\ req.tokens = 2500
                    /\ store.credits = CurrentBalance(pre[1].row, store.qrd, req.trial) - 5

\* C24: check_and_increment returns True at most DAILY_LIMIT times on one date;
\* a call that returns True raises the stored count of that date by one and
\* leaves the other dates; a call that returns False leaves the stored counts;
\* whether or not the file can be read and written.
C24_DailyLimitHolds ==
    [][dailyCalls'.calls # dailyCalls.calls =>
         /\ \A d \in Days : dailyCalls'.allowed[d] <= 18
         /\ IF dailyCalls'.last = "allowed"
            THEN dailyCalls'.counts = [dailyCalls.counts EXCEPT ![today] = @ + 1]
            ELSE dailyCalls'.counts = dailyCalls.counts]_vars

C26_TrialOnce ==
    [][(trial'.last.op = "check" /\ trial'.last.device \in trial.registered) =>
           trial'.last.answer # "can_use_trial"]_vars

\* C27: with no addBonus and one account class in every call, the balance of
\* an account the service created stays between 0 and the quota of the class
\* (10 for trial, 30 for full) under every interleaving of getOrCreate,
\* ensureSufficient and consume.
C27_BalanceWithinQuota ==
    store.ex => (0 <= store.credits /\ store.credits <= (IF anon THEN 10 ELSE 30))

\* A trial account on the day after its creation: one handler has committed its
\* debit on the reset row while the other still holds the row of the day before.
C27_Witness ==
    /\ anon
    /\ today = 1
    /\ pc[1] = "c_write" /\ loc[1].ex /\ loc[1].qrd = 0
    /\ pc[2] = "c_refresh"
    /\ store.ex /\ store.qrd = 1 /\ store.credits < 10

C29_CheckedChatIsDebited ==
    (req.pc = "idle" /\ req.ep \in {"chat", "stream"} /\ req.ensured /\ req.inference = "ok") =>
        /\ args[1].op = "consume"
        /\ ExpectedCost(args[1].cost, args[1].tokens) <= req.row.credits
        /\ res[1].status = "ok"
        /\ req.event # "INSUFFICIENT_CREDITS" /\ req.status = "200"

\* C30: under concurrent first accesses of a new user no caller ends in an
\* error, one account exists once a caller has returned, and on the day of the
\* creation its balance is the quota of the class minus the debits committed.
C30_ConcurrentFirstAccess ==
    /\ \A p \in Procs : res[p].status \notin {"500"}
    /\ (\E p \in Procs : res[p].status # "none") => store.ex
    /\ (store.ex /\ today = 0) =>
          store.credits = (IF anon THEN 10 ELSE 30) - ledger.paid

====
